---- MODULE Spec2Model ----
(***************************************************************************)
(* Model of app.py (CodebaseConverterApp): the tri-state checkbox tree,    *)
(* the lazy directory scan with its ingestion queue, and the conversion    *)
(* worker with its event queue.                                            *)
(*                                                                         *)
(* One interaction thread runs the handlers (each handler is one action);  *)
(* scanner threads and conversion workers advance one shared-memory step   *)
(* at a time.                                                              *)
(***************************************************************************)
EXTENDS Integers, Sequences, FiniteSets, TLC

(***************************************************************************)
(* Bounds of the model.                                                    *)
(***************************************************************************)
\* Source folders selected over the life of the window, when every action
\* of the program is enabled (Spec).
MaxTrees == 1
\* Source folders selected in the re-selection scenario (SpecRerun).
MaxTreesRerun == 2

(***************************************************************************)
(* The file system the application looks at.  It does not change while the *)
(* application runs.  Entries are numbered; a name is the sequence of its  *)
(* character codes so that lower() and endswith() are computed.            *)
(*    1  R/            directory                                           *)
(*    2  R/B.py        file                                                *)
(*    3  R/a/          directory                                           *)
(*    4  R/a/d.pdf     file                                                *)
(*    5  R/a/c.py      file                                                *)
(*    6  E/            directory, empty                                    *)
(***************************************************************************)
NoPath == 0
FsPaths == 1 .. 6
FsRoots == {1, 6}

FsName(p) ==
    CASE p = 1 -> <<82>>
      [] p = 2 -> <<66, 46, 112, 121>>
      [] p = 3 -> <<97>>
      [] p = 4 -> <<100, 46, 112, 100, 102>>
      [] p = 5 -> <<99, 46, 112, 121>>
      [] p = 6 -> <<69>>

FsParent(p) ==
    CASE p = 1 -> NoPath
      [] p = 2 -> 1
      [] p = 3 -> 1
      [] p = 4 -> 3
      [] p = 5 -> 3
      [] p = 6 -> NoPath

\* os.path.isdir / DirEntry.is_dir(follow_symlinks=False)
IsDir(p) == p \in {1, 3, 6}

\* os.path.isfile / DirEntry.is_file(follow_symlinks=False)
IsFile(p) == p \in {2, 4, 5}

\* The order in which os.scandir yields the entries of a directory (the
\* operating system's order, here by entry number).
RECURSIVE ListFrom(_, _)
ListFrom(dir, p) ==
    IF p > 6 THEN <<>>
    ELSE (IF FsParent(p) = dir THEN <<p>> ELSE <<>>) \o ListFrom(dir, p + 1)

ScanDir(dir) == ListFrom(dir, 1)

\* ".pdf"
PdfSuffix == <<46, 112, 100, 102>>

\* str.endswith
EndsWith(s, suf) ==
    /\ Len(s) >= Len(suf)
    /\ \A i \in 1 .. Len(suf) : s[Len(s) - Len(suf) + i] = suf[i]

\* abspath.endswith('.pdf'): the path ends with its last component.
EndsWithPdf(p) == EndsWith(FsName(p), PdfSuffix)

\* str.lower on one character code
LowerChar(c) == IF c >= 65 /\ c <= 90 THEN c + 32 ELSE c

\* s.lower() < t.lower(), Python's lexicographic string order
RECURSIVE LowerLess(_, _)
LowerLess(s, t) ==
    IF t = <<>> THEN FALSE
    ELSE IF s = <<>> THEN TRUE
    ELSE IF LowerChar(Head(s)) # LowerChar(Head(t))
         THEN LowerChar(Head(s)) < LowerChar(Head(t))
         ELSE LowerLess(Tail(s), Tail(t))

\* The key of sorted(it, key=lambda e: e.name.lower()): a before b
SortKeyLess(a, b) == LowerLess(FsName(a), FsName(b))

\* Stable insertion of entry e into an already sorted sequence.
RECURSIVE InsertSorted(_, _)
InsertSorted(e, s) ==
    IF s = <<>> THEN <<e>>
    ELSE IF SortKeyLess(e, Head(s)) THEN <<e>> \o s
    ELSE <<Head(s)>> \o InsertSorted(e, Tail(s))

\* The entries in the order os.scandir yields them.
Unsorted(s) == s

\* sorted(): stable, so equal keys keep the order of the input.
RECURSIVE Sorted(_)
Sorted(s) ==
    IF s = <<>> THEN <<>>
    ELSE InsertSorted(s[Len(s)], Sorted(SubSeq(s, 1, Len(s) - 1)))

\* entries = sorted(os.scandir(abspath), key=...)
SortedEntries(dir) == Sorted(ScanDir(dir))


(***************************************************************************)
(* The Treeview.  An item is a record: path is values[0]; tag is the one   *)
(* tag of the item, which every writer sets together with the checkbox     *)
(* glyph of the text; kids are the real children in display order; dummy   *)
(* says that the 'Loading...' placeholder child is present; opens counts   *)
(* the <<TreeviewOpen>> events delivered for the item (it stops at two).   *)
(***************************************************************************)
NoNode == 0

NewItem(p, par, isdir) ==
    [path |-> p, tag |-> "unchecked", parent |-> par, kids |-> <<>>,
     dummy |-> isdir, opens |-> 0]

\* len(self.tree.get_children(n)), the placeholder included
NumChildren(t, n) == Len(t[n].kids) + (IF t[n].dummy THEN 1 ELSE 0)

\* A cascade that stops at the immediate children.
update_children_flat(t, parent, new_tag) ==
    [n \in DOMAIN t |->
        IF \E k \in 1 .. Len(t[parent].kids) : t[parent].kids[k] = n
        THEN [t[n] EXCEPT !.tag = new_tag]
        ELSE t[n]]

\* update_children: every real child takes new_tag, recursively.  The
\* placeholder has no checkbox glyph and is skipped.
RECURSIVE update_children(_, _, _), UpdateKids(_, _, _)
update_children(t, parent, new_tag) == UpdateKids(t, t[parent].kids, new_tag)

UpdateKids(t, kids, new_tag) ==
    IF kids = <<>> THEN t
    ELSE LET child == Head(kids)
             t1 == [t EXCEPT ![child].tag = new_tag]
             t2 == update_children(t1, child, new_tag)
         IN  UpdateKids(t2, Tail(kids), new_tag)

\* The counting loop of update_parent_check: children whose text starts
\* with the checked or the partial glyph.
CountChecked(t, kids) ==
    Cardinality({i \in 1 .. Len(kids) : t[kids[i]].tag \in {"checked", "partial"}})

\* Children whose text starts with the unchecked glyph.
CountUnchecked(t, kids) ==
    Cardinality({i \in 1 .. Len(kids) : t[kids[i]].tag = "unchecked"})

\* The state update_parent_check gives a parent.
ParentTag(t, parent) ==
    IF CountChecked(t, t[parent].kids) = NumChildren(t, parent) THEN "checked"
    ELSE IF CountUnchecked(t, t[parent].kids) = NumChildren(t, parent) THEN "unchecked"
    ELSE "partial"

\* update_parent_check: recompute the parent from its children, then its
\* parent, up to the top-level item.
RECURSIVE update_parent_check(_, _)
update_parent_check(t, child) ==
    LET parent == t[child].parent
    IN  IF parent = NoNode THEN t
        ELSE update_parent_check([t EXCEPT ![parent].tag = ParentTag(t, parent)], parent)

\* A click that takes a partial item to unchecked.
ClickTagFlip(old) == IF old = "unchecked" THEN "checked" ELSE "unchecked"

\* The new tag on_treeview_click picks from the current glyph.
ClickTag(old) == IF old = "checked" THEN "unchecked" ELSE "checked"

\* The tree after on_treeview_click on item.
ClickTree(t, item) ==
    LET new_tag == ClickTag(t[item].tag)
        t1 == [t EXCEPT ![item].tag = new_tag]
        t2 == update_children(t1, item, new_tag)
    IN  update_parent_check(t2, item)

\* What recurse() of get_checked_items appends at one item.
\* A test for emission that looks at the tag only.
EmitsAnyChecked(t, item) == t[item].tag = "checked"

\* A test for emission without the test of the extension.
EmitsAnyFile(t, item) ==
    /\ t[item].tag = "checked"
    /\ IsFile(t[item].path)

Emits(t, item) ==
    /\ t[item].tag = "checked"
    /\ IsFile(t[item].path)
    /\ ~EndsWithPdf(t[item].path)

\* get_checked_items: depth first from the top-level items.
RECURSIVE Recurse(_, _), RecurseAll(_, _)
Recurse(t, item) ==
    (IF Emits(t, item) THEN <<t[item].path>> ELSE <<>>) \o RecurseAll(t, t[item].kids)

RecurseAll(t, items) ==
    IF items = <<>> THEN <<>>
    ELSE Recurse(t, Head(items)) \o RecurseAll(t, Tail(items))

get_checked_items(t, roots) == RecurseAll(t, roots)

(***************************************************************************)
(* State.                                                                  *)
(***************************************************************************)
VARIABLES
    tree,          \* item id -> item, the items now in self.tree
    top,           \* self.tree.get_children(''), in order
    nextId,        \* the next item id the Treeview hands out
    trees,         \* how many times populate_treeview has run
    root_dir,      \* self.root_dir, NoPath for None
    stop_event,    \* self.stop_event
    tree_queue,    \* self.tree_queue
    gui_queue,     \* self.gui_queue
    buttons,       \* state of select/lock/start/stop button, TRUE = NORMAL
    click_bound,   \* <Button-1> is bound to on_treeview_click
    stats_labels,  \* numbers shown by the selected/success/fail labels
    log_area,      \* lines of self.log_area
    pdf_var,       \* self.pdf_var
    txt_var,       \* self.txt_var
    scans,         \* the scanner threads started so far
    workers        \* the conversion threads started so far

vars == <<tree, top, nextId, trees, root_dir, stop_event, tree_queue, gui_queue,
          buttons, click_bound, stats_labels, log_area, pdf_var, txt_var,
          scans, workers>>

EmptyTree == [n \in {} |-> NewItem(NoPath, NoNode, FALSE)]

LogEvent(txt) == [kind |-> "log", n |-> 0, text |-> txt]

Init ==
    /\ tree = EmptyTree
    /\ top = <<>>
    /\ nextId = 1
    /\ trees = 0
    /\ root_dir = NoPath
    /\ stop_event = FALSE
    /\ tree_queue = <<>>
    /\ gui_queue = <<>>
    /\ buttons = [select |-> TRUE, lock |-> FALSE, start |-> FALSE, stop |-> FALSE]
    /\ click_bound = TRUE
    /\ stats_labels = [selected |-> 0, success |-> 0, fail |-> 0]
    /\ log_area = <<>>
    /\ pdf_var = TRUE
    /\ txt_var = FALSE
    /\ scans = <<>>
    /\ workers = <<>>


(***************************************************************************)
(* Interaction thread: the handlers of the buttons, the menu, the Treeview *)
(* and the two timers.                                                     *)
(***************************************************************************)
\* The button states reset_state leaves.
ResetButtons == [select |-> TRUE, lock |-> FALSE, start |-> FALSE, stop |-> FALSE]

\* The three labels after reset_state.
ResetStats == [selected |-> 0, success |-> 0, fail |-> 0]

\* reset_state: the tree, the labels, the buttons, the log, the click
\* binding and root_dir.  The stop flag, both queues and the running threads
\* are not touched.
reset_state ==
    /\ tree' = EmptyTree
    /\ top' = <<>>
    /\ stats_labels' = ResetStats
    /\ buttons' = ResetButtons
    /\ log_area' = <<>>
    /\ click_bound' = TRUE
    /\ root_dir' = NoPath

\* The scanner threads that have not returned yet.
Running(ss) == SelectSeq(ss, LAMBDA s : s.pc = "run")

\* The conversion threads that have not returned yet.
Active(ws) == SelectSeq(ws, LAMBDA w : w.pc # "done")

\* restart_app, confirmed.  The File menu entry is always enabled.  Threads
\* that returned are kept in scans and workers only until the tree they
\* belong to is discarded.
restart_app ==
    /\ reset_state
    /\ scans' = Running(scans)
    /\ workers' = Active(workers)
    /\ UNCHANGED <<nextId, trees, stop_event, tree_queue, gui_queue, pdf_var, txt_var>>

\* select_folder with a directory chosen (a cancelled dialog changes
\* nothing): reset_state, then the new root item with its placeholder.  It
\* is reachable from the File menu whatever the state of select_button.
select_folder(selected_dir) ==
    /\ trees' = trees + 1
    /\ tree' = (nextId :> NewItem(selected_dir, NoNode, TRUE))
    /\ top' = <<nextId>>
    /\ nextId' = nextId + 1
    /\ stats_labels' = ResetStats
    /\ buttons' = [ResetButtons EXCEPT !.lock = TRUE, !.select = FALSE]
    /\ log_area' = <<>>
    /\ click_bound' = TRUE
    /\ root_dir' = selected_dir
    /\ scans' = Running(scans)
    /\ workers' = Active(workers)
    /\ UNCHANGED <<stop_event, tree_queue, gui_queue, pdf_var, txt_var>>

\* What hist records of an event: its kind, and for a log line its text.
HistOf(e) == IF e.kind = "log" THEN e.text ELSE e.kind

\* The thread w after it has put the events evs on gui_queue.
Put(w, evs) == [w EXCEPT !.hist = w.hist \o [k \in 1 .. Len(evs) |-> HistOf(evs[k])]]

\* A new scanner thread for item node.
NewScan(node, abspath) ==
    [node |-> node, path |-> abspath, idx |-> 1, enqueued |-> FALSE, pc |-> "run"]

\* The test of on_treeview_open: the only child is the placeholder.
OnlyDummy(t, node) == NumChildren(t, node) = 1 /\ t[node].dummy

\* on_treeview_open for a directory item: if its only child is the
\* placeholder, delete the placeholder and start a scanner thread.
on_treeview_open(node) ==
    /\ node \in DOMAIN tree
    /\ IsDir(tree[node].path)
    /\ LET seen == IF tree[node].opens < 2 THEN tree[node].opens + 1 ELSE 2
       IN  IF OnlyDummy(tree, node)
           THEN /\ tree' = [tree EXCEPT ![node].dummy = FALSE, ![node].opens = seen]
                /\ scans' = Append(scans, NewScan(node, tree[node].path))
           ELSE /\ tree' = [tree EXCEPT ![node].opens = seen]
                /\ UNCHANGED scans
    /\ UNCHANGED <<top, nextId, trees, root_dir, stop_event, tree_queue, gui_queue, buttons,
                   click_bound, stats_labels, log_area, pdf_var, txt_var, workers>>

\* on_treeview_click on the text of an item, while the binding is in place.
on_treeview_click(item) ==
    /\ click_bound
    /\ item \in DOMAIN tree
    /\ tree' = ClickTree(tree, item)
    /\ UNCHANGED <<top, nextId, trees, root_dir, stop_event, tree_queue, gui_queue, buttons,
                   click_bound, stats_labels, log_area, pdf_var, txt_var, scans, workers>>

\* A lock_selection that leaves the click binding of the tree in place.
lock_selection_bound ==
    /\ buttons.lock
    /\ LET selected_items == get_checked_items(tree, top)
       IN  /\ selected_items # <<>>
           /\ stats_labels' = [stats_labels EXCEPT !.selected = Len(selected_items)]
           /\ buttons' = [buttons EXCEPT !.lock = FALSE, !.select = FALSE, !.start = TRUE]
    /\ UNCHANGED <<tree, top, nextId, trees, root_dir, stop_event, tree_queue, gui_queue,
                   click_bound, log_area, pdf_var, txt_var, scans, workers>>

\* lock_selection (lock_button is NORMAL); with nothing selected it only
\* shows a warning.
lock_selection ==
    /\ buttons.lock
    /\ LET selected_items == get_checked_items(tree, top)
       IN  /\ selected_items # <<>>
           /\ stats_labels' = [stats_labels EXCEPT !.selected = Len(selected_items)]
           /\ buttons' = [buttons EXCEPT !.lock = FALSE, !.select = FALSE, !.start = TRUE]
           /\ click_bound' = FALSE
    /\ UNCHANGED <<tree, top, nextId, trees, root_dir, stop_event, tree_queue, gui_queue,
                   log_area, pdf_var, txt_var, scans, workers>>

\* The thread on_start_conversion starts: run_conversion(selected_items, ..)
\* with its local counters.  hist lists the kinds of the events the thread
\* has put on gui_queue; start is the directory its latest destination path
\* was made relative to.
NewWorker(selected_items) ==
    [items |-> selected_items, idx |-> 1, pc |-> "loop", formats |-> {},
     success_count |-> 0, fail_count |-> 0, hist |-> <<>>, start |-> NoPath]

\* on_start_conversion (start_button is NORMAL), confirmed and with a
\* destination chosen.
on_start_conversion ==
    /\ buttons.start
    /\ LET selected_items == get_checked_items(tree, top)
       IN  /\ selected_items # <<>>
           /\ workers' = Append(workers, NewWorker(selected_items))
    /\ buttons' = [buttons EXCEPT !.start = FALSE, !.stop = TRUE, !.lock = FALSE,
                                  !.select = FALSE]
    /\ log_area' = <<>>
    /\ stats_labels' = [stats_labels EXCEPT !.success = 0, !.fail = 0]
    /\ stop_event' = FALSE
    /\ UNCHANGED <<tree, top, nextId, trees, root_dir, tree_queue, gui_queue, click_bound,
                   pdf_var, txt_var, scans>>

\* stop_conversion (stop_button is NORMAL).
stop_conversion ==
    /\ buttons.stop
    /\ stop_event' = TRUE
    /\ buttons' = [buttons EXCEPT !.stop = FALSE, !.start = FALSE, !.lock = FALSE,
                                  !.select = TRUE]
    /\ gui_queue' = Append(gui_queue, LogEvent("stop_pressed"))
    /\ UNCHANGED <<tree, top, nextId, trees, root_dir, tree_queue, click_bound, stats_labels,
                   log_area, pdf_var, txt_var, scans, workers>>

\* The PDF check box; it is never disabled.
toggle_pdf ==
    /\ pdf_var' = ~pdf_var
    /\ UNCHANGED <<tree, top, nextId, trees, root_dir, stop_event, tree_queue, gui_queue,
                   buttons, click_bound, stats_labels, log_area, txt_var, scans, workers>>

\* The TXT check box; it is never disabled.
toggle_txt ==
    /\ txt_var' = ~txt_var
    /\ UNCHANGED <<tree, top, nextId, trees, root_dir, stop_event, tree_queue, gui_queue,
                   buttons, click_bound, stats_labels, log_area, pdf_var, scans, workers>>


\* One item of tree_queue: ('directory' | 'file', path, None, parent_node).
QueueItem(kind, p, parent_node) == [kind |-> kind, path |-> p, parent |-> parent_node]

\* self.tree.insert(parent, 'end', ...) of process_tree_queue: the new item
\* goes last under parent; a directory gets the placeholder child.
InsertItem(t, nid, item) ==
    [t EXCEPT ![item.parent].kids = Append(@, nid)]
        @@ (nid :> NewItem(item.path, item.parent, item.kind = "directory"))

\* A drain that puts an entry whose parent item is gone under the root item
\* of the tree on display.
RECURSIVE DrainTreeStale(_)
DrainTreeStale(st) ==
    IF st.q = <<>> THEN st
    ELSE LET item == Head(st.q)
             live == IF item.parent \in DOMAIN st.t \/ top = <<>>
                     THEN item
                     ELSE [item EXCEPT !.parent = top[1]]
         IN  IF live.parent \in DOMAIN st.t
             THEN DrainTreeStale([t |-> InsertItem(st.t, st.nid, live), q |-> Tail(st.q),
                                  nid |-> st.nid + 1, err |-> FALSE])
             ELSE [st EXCEPT !.q = Tail(st.q), !.err = TRUE]

\* The loop of process_tree_queue over the queued items.  Inserting under an
\* item that is no longer in the tree raises; the handler catches it, this
\* tick ends there and the rest of the queue waits for the next tick.
RECURSIVE DrainTree(_)
DrainTree(st) ==
    IF st.q = <<>> THEN st
    ELSE LET item == Head(st.q)
         IN  IF item.parent \in DOMAIN st.t
             THEN DrainTree([t |-> InsertItem(st.t, st.nid, item), q |-> Tail(st.q),
                             nid |-> st.nid + 1, err |-> FALSE])
             ELSE [st EXCEPT !.q = Tail(st.q), !.err = TRUE]

\* One tick of process_tree_queue.
process_tree_queue ==
    /\ tree_queue # <<>>
    /\ LET r == DrainTree([t |-> tree, q |-> tree_queue, nid |-> nextId, err |-> FALSE])
       IN  /\ tree' = r.t
           /\ tree_queue' = r.q
           /\ nextId' = r.nid
           /\ gui_queue' = IF r.err THEN Append(gui_queue, LogEvent("tree_queue_error"))
                           ELSE gui_queue
    /\ UNCHANGED <<top, trees, root_dir, stop_event, buttons, click_bound, stats_labels,
                   log_area, pdf_var, txt_var, scans, workers>>

\* The branch of process_gui_queue for one task.  The widgets it writes are
\* the labels, the log and the buttons.
ApplyTask(st, task) ==
    IF task.kind = "success" THEN [st EXCEPT !.stats.success = task.n]
    ELSE IF task.kind = "fail" THEN [st EXCEPT !.stats.fail = task.n]
    ELSE IF task.kind = "log" THEN [st EXCEPT !.log = Append(@, task.text)]
    ELSE IF task.kind = "buttons"
         THEN [st EXCEPT !.btn.start = FALSE, !.btn.stop = FALSE, !.btn.select = TRUE]
    ELSE st

\* The loop of process_gui_queue until the queue is empty.
RECURSIVE DrainGui(_, _)
DrainGui(st, q) ==
    IF q = <<>> THEN st ELSE DrainGui(ApplyTask(st, Head(q)), Tail(q))

\* One tick of process_gui_queue.
process_gui_queue ==
    /\ gui_queue # <<>>
    /\ LET r == DrainGui([stats |-> stats_labels, log |-> log_area, btn |-> buttons],
                         gui_queue)
       IN  /\ stats_labels' = r.stats
           /\ log_area' = r.log
           /\ buttons' = r.btn
    /\ gui_queue' = <<>>
    /\ UNCHANGED <<tree, top, nextId, trees, root_dir, stop_event, tree_queue, click_bound,
                   pdf_var, txt_var, scans, workers>>

(***************************************************************************)
(* Scanner threads: scan_and_enqueue_children(abspath, parent_node).       *)
(***************************************************************************)
\* The thread i returns with the given result.  Its record is kept, with
\* the result, while its item is in the tree.
Return(ss, i, result) ==
    IF ss[i].node \in DOMAIN tree
    THEN [ss EXCEPT ![i].pc = result]
    ELSE SubSeq(ss, 1, i - 1) \o SubSeq(ss, i + 1, Len(ss))

\* A 'no eligible' line after every scan.
AfterLoopAlways(q, enqueued) == Append(q, LogEvent("no_eligible"))

\* The 'no eligible' line after the loop, unless something was enqueued.
AfterLoop(q, enqueued) ==
    IF enqueued THEN q ELSE Append(q, LogEvent("no_eligible"))

\* os.scandir raises (PermissionError or another OSError) before any entry
\* is seen: the matching except clause logs, then the code after the loop
\* runs.
ScanFail(i, err) ==
    /\ i \in DOMAIN scans
    /\ scans[i].pc = "run"
    /\ scans[i].idx = 1
    /\ gui_queue' = AfterLoop(Append(gui_queue, LogEvent(err)), scans[i].enqueued)
    /\ scans' = Return(scans, i, "failed")
    /\ UNCHANGED <<tree, top, nextId, trees, root_dir, stop_event, tree_queue, buttons,
                   click_bound, stats_labels, log_area, pdf_var, txt_var, workers>>

\* The kind scan_and_enqueue_children gives an entry.
EntryKind(p) == IF IsDir(p) THEN "directory" ELSE "file"

\* One iteration of the loop over the sorted entries: leave the loop if the
\* stop flag is set, else enqueue the entry.  The thread returns when the
\* loop is left or the entries are used up.
ScanStep(i) ==
    /\ i \in DOMAIN scans
    /\ scans[i].pc = "run"
    /\ LET s == scans[i]
           entries == SortedEntries(s.path)
       IN  IF s.idx > Len(entries)
           THEN /\ scans' = Return(scans, i, "ok")
                /\ gui_queue' = AfterLoop(gui_queue, s.enqueued)
                /\ UNCHANGED tree_queue
           ELSE IF stop_event
           THEN /\ scans' = Return(scans, i, "cancelled")
                /\ gui_queue' = AfterLoop(gui_queue, s.enqueued)
                /\ UNCHANGED tree_queue
           ELSE /\ tree_queue' = Append(tree_queue,
                                        QueueItem(EntryKind(entries[s.idx]),
                                                  entries[s.idx], s.node))
                /\ scans' = IF s.idx = Len(entries)
                            THEN Return([scans EXCEPT ![i].idx = s.idx + 1,
                                                      ![i].enqueued = TRUE], i, "ok")
                            ELSE [scans EXCEPT ![i].idx = s.idx + 1,
                                               ![i].enqueued = TRUE]
                /\ UNCHANGED gui_queue
    /\ UNCHANGED <<tree, top, nextId, trees, root_dir, stop_event, buttons, click_bound,
                   stats_labels, log_area, pdf_var, txt_var, workers>>

(***************************************************************************)
(* Conversion threads: run_conversion(selected_items, dest_dir).           *)
(* pc is "loop" at the top of the for loop, "pdf" and "txt" while that     *)
(* conversion of items[idx] is in flight, "final" after the loop and       *)
(* "done" when the function has returned.                                  *)
(***************************************************************************)
\* formats, as the loop body builds it from the two check boxes.
Formats(pdf, txt) ==
    LET chosen == (IF pdf THEN {"pdf"} ELSE {}) \cup (IF txt THEN {"txt"} ELSE {})
    IN  IF chosen = {} THEN {"pdf"} ELSE chosen

\* Where the thread goes when the body of the loop is finished for
\* items[idx]: the next item, or past the loop.
NextItem(w) ==
    [w EXCEPT !.idx = w.idx + 1,
              !.pc = IF w.idx + 1 > Len(w.items) THEN "final" ELSE "loop"]

\* The top of the loop body for items[idx]: the stop check, the directory
\* check, and the formats read from the check boxes.  It leaves the thread
\* in the first conversion of the item.
WorkerLoop(i) ==
    /\ i \in DOMAIN workers
    /\ workers[i].pc = "loop"
    /\ LET w == workers[i]
           formats == Formats(pdf_var, txt_var)
       IN  IF stop_event
           THEN /\ workers' = [workers EXCEPT
                                 ![i] = Put([w EXCEPT !.pc = "final"], <<LogEvent("stopped")>>)]
                /\ gui_queue' = Append(gui_queue, LogEvent("stopped"))
           ELSE IF IsDir(w.items[w.idx])
           THEN /\ workers' = [workers EXCEPT ![i] = NextItem(w)]
                /\ UNCHANGED gui_queue
           ELSE /\ workers' = [workers EXCEPT ![i].formats = formats,
                                   ![i].pc = IF "pdf" \in formats THEN "pdf" ELSE "txt"]
                /\ UNCHANGED gui_queue
    /\ UNCHANGED <<tree, top, nextId, trees, root_dir, stop_event, tree_queue, buttons,
                   click_bound, stats_labels, log_area, pdf_var, txt_var, scans>>

\* The two events of a conversion that returned.
SuccessEvents(w, fmt) ==
    <<[kind |-> "success", n |-> w.success_count + 1, text |-> ""],
      LogEvent(fmt \o "_ok")>>

\* The two events of a conversion that raised.
FailEvents(w, fmt) ==
    <<[kind |-> "fail", n |-> w.fail_count + 1, text |-> ""],
      LogEvent(fmt \o "_fail")>>

\* os.path.relpath(source_file, self.root_dir): the directory the relative
\* path starts from is self.root_dir as it is when the task runs; for None
\* relpath takes the current directory.
RelpathStart == root_dir

\* The thread after a conversion that returned / raised.
Succeed(w, fmt) ==
    Put([w EXCEPT !.success_count = w.success_count + 1, !.start = RelpathStart],
        SuccessEvents(w, fmt))

Fail(w, fmt) ==
    Put([w EXCEPT !.fail_count = w.fail_count + 1, !.start = RelpathStart],
        FailEvents(w, fmt))

\* The event that ends the body of the loop.
ProgressEvent == [kind |-> "progress", n |-> 1, text |-> ""]

\* The outcomes a conversion can have: the calls in the try block return, or
\* one of them raises.
Outcomes == {TRUE, FALSE}

\* The 'pdf' block: the conversion returns or raises, the count and the two
\* events follow.  Then the 'txt' block starts if txt is in formats, else
\* the progress event ends the body.
WorkerPdf(i) ==
    /\ i \in DOMAIN workers
    /\ workers[i].pc = "pdf"
    /\ \E ok \in Outcomes :
         LET w == workers[i]
             w1 == IF ok THEN Succeed(w, "pdf") ELSE Fail(w, "pdf")
             ev == IF ok THEN SuccessEvents(w, "pdf") ELSE FailEvents(w, "pdf")
         IN  IF "txt" \in w.formats
             THEN /\ workers' = [workers EXCEPT ![i] = [w1 EXCEPT !.pc = "txt"]]
                  /\ gui_queue' = gui_queue \o ev
             ELSE /\ workers' = [workers EXCEPT
                                   ![i] = NextItem(Put(w1, <<ProgressEvent>>))]
                  /\ gui_queue' = gui_queue \o ev \o <<ProgressEvent>>
    /\ UNCHANGED <<tree, top, nextId, trees, root_dir, stop_event, tree_queue, buttons,
                   click_bound, stats_labels, log_area, pdf_var, txt_var, scans>>

\* The 'txt' block, then the progress event.
WorkerTxt(i) ==
    /\ i \in DOMAIN workers
    /\ workers[i].pc = "txt"
    /\ \E ok \in Outcomes :
         LET w == workers[i]
             w1 == IF ok THEN Succeed(w, "txt") ELSE Fail(w, "txt")
             ev == IF ok THEN SuccessEvents(w, "txt") ELSE FailEvents(w, "txt")
         IN  /\ workers' = [workers EXCEPT ![i] = NextItem(Put(w1, <<ProgressEvent>>))]
             /\ gui_queue' = gui_queue \o ev \o <<ProgressEvent>>
    /\ UNCHANGED <<tree, top, nextId, trees, root_dir, stop_event, tree_queue, buttons,
                   click_bound, stats_labels, log_area, pdf_var, txt_var, scans>>

\* An end of run that re-enables the controls only when it was not stopped.
FinalEventsUnlessStopped(stopped) ==
    IF stopped THEN <<>>
    ELSE <<[kind |-> "message", n |-> 0, text |-> "all_converted"],
           [kind |-> "buttons", n |-> 0, text |-> "enable"]>>

\* An end of run without the summary message.
FinalEventsNoMessage(stopped) == <<[kind |-> "buttons", n |-> 0, text |-> "enable"]>>

\* An end of run that shows the summary message whether stopped or not.
FinalEventsAlwaysMessage(stopped) ==
    <<[kind |-> "message", n |-> 0, text |-> "all_converted"],
      [kind |-> "buttons", n |-> 0, text |-> "enable"]>>

\* The events after the loop: the summary message unless the stop flag is
\* set, then the terminal 'buttons' event.
FinalEvents(stopped) ==
    (IF stopped THEN <<>> ELSE <<[kind |-> "message", n |-> 0, text |-> "all_converted"]>>)
        \o <<[kind |-> "buttons", n |-> 0, text |-> "enable"]>>

\* After the loop; the function returns.
WorkerFinal(i) ==
    /\ i \in DOMAIN workers
    /\ workers[i].pc = "final"
    /\ workers' = [workers EXCEPT
                     ![i] = Put([workers[i] EXCEPT !.pc = "done"], FinalEvents(stop_event))]
    /\ gui_queue' = gui_queue \o FinalEvents(stop_event)
    /\ UNCHANGED <<tree, top, nextId, trees, root_dir, stop_event, tree_queue, buttons,
                   click_bound, stats_labels, log_area, pdf_var, txt_var, scans>>

(***************************************************************************)
(* The specification.                                                      *)
(***************************************************************************)
\* The errors with which os.scandir can fail.
ScanErrors == {"perm_denied", "scan_error"}

\* The steps of the scanner threads and of the conversion threads.
ScannerStep ==
    \/ \E i \in DOMAIN scans : \E err \in ScanErrors : ScanFail(i, err)
    \/ \E i \in DOMAIN scans : ScanStep(i)

WorkerStep ==
    \/ \E i \in DOMAIN workers : WorkerLoop(i)
    \/ \E i \in DOMAIN workers : WorkerPdf(i)
    \/ \E i \in DOMAIN workers : WorkerTxt(i)
    \/ \E i \in DOMAIN workers : WorkerFinal(i)

\* Every handler and every thread, with one source folder selected.
Next ==
    \/ \E d \in FsRoots : trees < MaxTrees /\ select_folder(d)
    \/ restart_app
    \/ \E n \in DOMAIN tree : on_treeview_open(n)
    \/ \E n \in DOMAIN tree : on_treeview_click(n)
    \/ lock_selection
    \/ on_start_conversion
    \/ stop_conversion
    \/ toggle_pdf
    \/ toggle_txt
    \/ process_tree_queue
    \/ process_gui_queue
    \/ ScannerStep
    \/ WorkerStep

Spec == Init /\ [][Next]_vars

\* The conversion scenario: the user selects one source folder, expands
\* directories that are not loaded yet, ticks the check box of the root item,
\* changes the formats, locks, starts, stops and restarts whenever they like;
\* every directory can be read.  The conversion thread is scheduled: when it
\* can take a step it takes one, every conversion call returning or raising.
NextRun ==
    \/ \E d \in FsRoots : trees < MaxTrees /\ select_folder(d)
    \/ restart_app
    \/ \E n \in DOMAIN tree : tree[n].dummy /\ on_treeview_open(n)
    \/ \E n \in DOMAIN tree : tree[n].parent = NoNode /\ on_treeview_click(n)
    \/ lock_selection
    \/ on_start_conversion
    \/ stop_conversion
    \/ toggle_pdf
    \/ toggle_txt
    \/ process_tree_queue
    \/ process_gui_queue
    \/ \E i \in DOMAIN scans : ScanStep(i)
    \/ WorkerStep

FairSpecRun == Init /\ [][NextRun]_vars /\ WF_vars(WorkerStep)

\* The re-selection scenario: the user goes through two source folders,
\* selecting the second one from the File menu whenever they like.  They
\* expand directories that are not loaded yet, tick the check box of the
\* root item, lock and start; they leave the format check boxes and the
\* stop button alone, every directory can be read and every conversion
\* returns.
NextRerun ==
    \/ \E d \in FsRoots : trees < MaxTreesRerun /\ select_folder(d)
    \/ \E n \in DOMAIN tree : tree[n].dummy /\ on_treeview_open(n)
    \/ \E n \in DOMAIN tree : tree[n].parent = NoNode /\ on_treeview_click(n)
    \/ lock_selection
    \/ on_start_conversion
    \/ process_tree_queue
    \/ process_gui_queue
    \/ \E i \in DOMAIN scans : ScanStep(i)
    \/ \E i \in DOMAIN workers : WorkerLoop(i)
    \/ \E i \in DOMAIN workers : WorkerPdf(i) /\ workers'[i].fail_count = 0
    \/ \E i \in DOMAIN workers : WorkerFinal(i)

SpecRerun == Init /\ [][NextRerun]_vars

\* The scenario of a stopped run followed by a new selection: the user
\* selects a source folder, expands directories that are not loaded yet,
\* ticks the check box of the root item, locks, starts and stops; once the
\* run has been stopped and its thread has returned they select a source
\* folder again from the File menu.  Every directory can be read and every
\* conversion returns.  The scanner threads are scheduled and the timer of
\* process_tree_queue keeps firing.
NextStopped ==
    \/ \E d \in FsRoots :
          /\ trees < MaxTreesRerun
          /\ trees = 0 \/ (stop_event /\ workers # <<>> /\ Active(workers) = <<>>)
          /\ select_folder(d)
    \/ \E n \in DOMAIN tree : tree[n].dummy /\ on_treeview_open(n)
    \/ \E n \in DOMAIN tree : tree[n].parent = NoNode /\ on_treeview_click(n)
    \/ lock_selection
    \/ on_start_conversion
    \/ stop_conversion
    \/ process_tree_queue
    \/ process_gui_queue
    \/ \E i \in DOMAIN scans : ScanStep(i)
    \/ \E i \in DOMAIN workers : WorkerLoop(i)
    \/ \E i \in DOMAIN workers : WorkerPdf(i) /\ workers'[i].fail_count = 0
    \/ \E i \in DOMAIN workers : WorkerFinal(i)

FairSpecStopped ==
    /\ Init
    /\ [][NextStopped]_vars
    /\ WF_vars(\E i \in DOMAIN scans : ScanStep(i))
    /\ WF_vars(process_tree_queue)

(***************************************************************************)
(* Notions used by the properties.                                         *)
(***************************************************************************)
\* The items below n.
RECURSIVE Descendants(_, _)
Descendants(t, n) ==
    LET kidset == {t[n].kids[k] : k \in 1 .. Len(t[n].kids)}
    IN  kidset \cup UNION {Descendants(t, c) : c \in kidset}

\* The items above n.
RECURSIVE Ancestors(_, _)
Ancestors(t, n) ==
    IF t[n].parent = NoNode THEN {} ELSE {t[n].parent} \cup Ancestors(t, t[n].parent)

\* Nothing of the tree is still to be loaded: no placeholder, no scanner
\* running, nothing waiting in tree_queue.
FullyLoaded ==
    /\ \A n \in DOMAIN tree : ~tree[n].dummy
    /\ Running(scans) = <<>>
    /\ tree_queue = <<>>

KidTags(t, n) == {t[t[n].kids[k]].tag : k \in 1 .. Len(t[n].kids)}

\* The tri-state rule at a directory item that has children.
TriState(t, n) ==
    t[n].kids # <<>> =>
        /\ (t[n].tag = "checked") <=> (KidTags(t, n) = {"checked"})
        /\ (t[n].tag = "unchecked") <=> (KidTags(t, n) = {"unchecked"})
        /\ (t[n].tag = "partial") <=> (KidTags(t, n) \notin {{"checked"}, {"unchecked"}})

\* All items in depth-first order, parents before their children.
RECURSIVE Preorder(_, _)
Preorder(t, items) ==
    IF items = <<>> THEN <<>>
    ELSE <<Head(items)>> \o Preorder(t, t[Head(items)].kids) \o Preorder(t, Tail(items))

PathsOf(t, ns) == [k \in 1 .. Len(ns) |-> t[ns[k]].path]

(***************************************************************************)
(* C1.  After a click on a tree that is fully loaded, every directory      *)
(* above the clicked item is checked iff all its children are checked,     *)
(* unchecked iff all are unchecked, and partial otherwise.                 *)
(* The code counts a partial child as a checked one, so a directory whose  *)
(* children are checked or partial becomes checked.                        *)
(***************************************************************************)
C1_TriStateAfterClick ==
    [][\A item \in DOMAIN tree :
         (FullyLoaded /\ on_treeview_click(item)) =>
             \A n \in Ancestors(tree', item) : TriState(tree', n)]_vars

(***************************************************************************)
(* C2.  A click gives the clicked item a binary state, checked if it was   *)
(* unchecked or partial and unchecked if it was checked, and gives every   *)
(* item below it that same state.                                          *)
(***************************************************************************)
C2_ClickCascades ==
    [][\A item \in DOMAIN tree :
         on_treeview_click(item) =>
             /\ tree'[item].tag = (IF tree[item].tag = "checked" THEN "unchecked"
                                   ELSE "checked")
             /\ \A d \in Descendants(tree, item) : tree'[d].tag = tree'[item].tag]_vars

\* A directory with a directory below it has been clicked: the four items
\* below it, two levels deep, are checked with it.
C2_Witness ==
    \E n \in DOMAIN tree :
        /\ tree[n].tag = "checked"
        /\ \E c \in Descendants(tree, n) : Descendants(tree, c) # {}
        /\ Cardinality(Descendants(tree, n)) = 4
        /\ \A d \in Descendants(tree, n) : tree[d].tag = "checked"

(***************************************************************************)
(* C3 as stated.  get_checked_items returns exactly the file items whose   *)
(* own state is checked, in depth-first order.                             *)
(* It leaves out a checked file whose path ends in '.pdf'.                 *)
(***************************************************************************)
C3_AllCheckedFiles ==
    get_checked_items(tree, top) =
        PathsOf(tree, SelectSeq(Preorder(tree, top),
                                LAMBDA n : tree[n].tag = "checked" /\ IsFile(tree[n].path)))

(***************************************************************************)
(* C3, amended.  get_checked_items returns exactly the file items whose    *)
(* own state is checked and whose path does not end in '.pdf', in          *)
(* depth-first order whatever the state of the directories above them; it  *)
(* contains no directory and no path ending in '.pdf'.                     *)
(***************************************************************************)
C3_CheckedFilesNotPdf ==
    LET got == get_checked_items(tree, top)
    IN  /\ got = PathsOf(tree, SelectSeq(Preorder(tree, top),
                                LAMBDA n : /\ tree[n].tag = "checked"
                                           /\ IsFile(tree[n].path)
                                           /\ ~EndsWith(FsName(tree[n].path), PdfSuffix)))
        /\ \A k \in 1 .. Len(got) : ~IsDir(got[k]) /\ ~EndsWith(FsName(got[k]), PdfSuffix)

\* A file is returned that lies below a directory that is not checked,
\* while a checked '.pdf' file is left out.
C3_Witness ==
    /\ \E n \in DOMAIN tree :
         /\ tree[n].tag = "checked" /\ EndsWith(FsName(tree[n].path), PdfSuffix)
    /\ \E n \in DOMAIN tree :
         /\ tree[n].tag # "checked"
         /\ \E d \in Descendants(tree, n) : tree[d].path \in
                {get_checked_items(tree, top)[k] :
                    k \in 1 .. Len(get_checked_items(tree, top))}

(***************************************************************************)
(* C4.  No conversion is started while the stop flag is set, the txt       *)
(* conversion of a file whose pdf conversion was in flight included.       *)
(* The code tests the flag once per file, at the top of the loop body.     *)
(***************************************************************************)
C4_NoTaskAfterStop ==
    [][\A i \in DOMAIN workers :
         ((WorkerLoop(i) \/ WorkerPdf(i)) /\ workers'[i].pc \in {"pdf", "txt"})
             => ~stop_event]_vars

(***************************************************************************)
(* C5.  At most one conversion thread is running: no run is started while  *)
(* the thread of an earlier run has not put its terminal event.            *)
(* Select Source Folder of the File menu is never disabled, so a second    *)
(* selection can be locked and started during a run.                       *)
(***************************************************************************)
C5_OneWorker == Len(Active(workers)) <= 1

(***************************************************************************)
(* C6.  A run that was never stopped gives every (file, format) pair of    *)
(* one format set F exactly one outcome: when it has returned, successes   *)
(* plus failures are n times the size of F, for n files.                   *)
(* The formats are read again for every file (see C19), so the files of    *)
(* one run can be converted to different format sets.                      *)
(***************************************************************************)
NeverStopped(w) == w.pc = "done" /\ "message" \in {w.hist[k] : k \in 1 .. Len(w.hist)}

C6_OneOutcomePerPair ==
    \A i \in DOMAIN workers :
        NeverStopped(workers[i]) =>
            \E F \in {{"pdf"}, {"txt"}, {"pdf", "txt"}} :
                workers[i].success_count + workers[i].fail_count
                    = Len(workers[i].items) * Cardinality(F)

(***************************************************************************)
(* C7.  A directory item that has been expanded two or more times has had  *)
(* exactly one scanner thread started for it, no entry of the directory is *)
(* inserted or queued twice under it, and once that thread has returned    *)
(* from a directory it could read and the queue holds nothing more for the *)
(* item, its children are the entries of the directory, each once.         *)
(* The scanner leaves its loop when the stop flag is set (see C23), and    *)
(* the entries it has not reached are never inserted.                      *)
(***************************************************************************)
ScansOf(n) == SelectSeq(scans, LAMBDA s : s.node = n)

QueuedFor(n) == SelectSeq(tree_queue, LAMBDA it : it.parent = n)

KidPaths(n) == PathsOf(tree, tree[n].kids)

C7_ExpandOnce ==
    \A n \in DOMAIN tree :
        tree[n].opens = 2 =>
            /\ Len(ScansOf(n)) = 1
            /\ LET all == KidPaths(n) \o
                          [k \in 1 .. Len(QueuedFor(n)) |-> QueuedFor(n)[k].path]
               IN  \A j, k \in 1 .. Len(all) : all[j] = all[k] => j = k
            /\ (ScansOf(n)[1].pc \in {"ok", "cancelled"} /\ QueuedFor(n) = <<>>)
                   => KidPaths(n) = SortedEntries(tree[n].path)

(***************************************************************************)
(* C8.  After a restart the window is back at NoRoot: while no source      *)
(* folder is selected the tree is empty, the counters show 0 and the log   *)
(* is empty, whatever was running at the restart.                          *)
(* reset_state leaves the running threads and gui_queue alone, so their    *)
(* events are applied after the restart.                                   *)
(***************************************************************************)
C8_ResetStays ==
    root_dir = NoPath =>
        /\ DOMAIN tree = {}
        /\ stats_labels.success = 0 /\ stats_labels.fail = 0
        /\ log_area = <<>>

(***************************************************************************)
(* C9.  Every conversion thread returns, and it has then put the terminal  *)
(* 'buttons' event exactly once, as its last event; a thread that has not  *)
(* returned has not put it.                                                *)
(***************************************************************************)
TerminalCount(w) == Cardinality({k \in 1 .. Len(w.hist) : w.hist[k] = "buttons"})

TerminalLast(w) ==
    IF w.pc = "done"
    THEN TerminalCount(w) = 1 /\ w.hist[Len(w.hist)] = "buttons"
    ELSE TerminalCount(w) = 0

C9_TerminalEvent ==
    /\ [](\A i \in DOMAIN workers : TerminalLast(workers[i]))
    /\ (Active(workers) # <<>>) ~> (Active(workers) = <<>>)

\* A run that was stopped has returned after both of its conversions failed.
C9_Witness ==
    \E i \in DOMAIN workers :
        /\ workers[i].pc = "done"
        /\ workers[i].success_count = 0
        /\ workers[i].fail_count = 2
        /\ "stopped" \in {workers[i].hist[k] : k \in 1 .. Len(workers[i].hist)}

(***************************************************************************)
(* C10.  The outcome events are applied to the displayed counters in the   *)
(* order the one conversion thread produced them, so a tick of             *)
(* process_gui_queue never lowers the success or the fail counter.         *)
(* With the thread of an earlier run still running (see C5) or its events  *)
(* still queued (see C8), an older and smaller count is displayed after a  *)
(* newer one.                                                              *)
(***************************************************************************)
C10_CountersGrow ==
    [][process_gui_queue =>
         /\ stats_labels'.success >= stats_labels.success
         /\ stats_labels'.fail >= stats_labels.fail]_vars

(***************************************************************************)
(* C11.  Once a conversion thread has seen the stop flag at its check and  *)
(* put the stop notice, the only event it puts afterwards is the terminal  *)
(* 'buttons' event; and every count it puts with a 'success' or 'fail'     *)
(* event is the number of conversions that have returned or raised in the  *)
(* run so far, so the last counts are those of the tasks before the stop.  *)
(***************************************************************************)
Count(h, texts) == Cardinality({k \in 1 .. Len(h) : h[k] \in texts})

AfterStopNotice(w) ==
    \A k \in 1 .. Len(w.hist) :
        w.hist[k] = "stopped" =>
            /\ SubSeq(w.hist, k + 1, Len(w.hist)) \in {<<>>, <<"buttons">>}
            /\ w.success_count = Count(SubSeq(w.hist, 1, k), {"pdf_ok", "txt_ok"})
            /\ w.fail_count = Count(SubSeq(w.hist, 1, k), {"pdf_fail", "txt_fail"})

NewEvents == SubSeq(gui_queue', Len(gui_queue) + 1, Len(gui_queue'))

CountsEmitted(i) ==
    \A k \in 1 .. Len(NewEvents) :
        /\ NewEvents[k].kind = "success" =>
               NewEvents[k].n = Count(workers'[i].hist, {"pdf_ok", "txt_ok"})
        /\ NewEvents[k].kind = "fail" =>
               NewEvents[k].n = Count(workers'[i].hist, {"pdf_fail", "txt_fail"})

C11_AfterStopObserved ==
    /\ [](\A i \in DOMAIN workers : AfterStopNotice(workers[i]))
    /\ [][\A i \in DOMAIN workers :
            (WorkerPdf(i) \/ WorkerTxt(i)) => CountsEmitted(i)]_vars

\* A run was stopped after one conversion had returned and one had raised,
\* and has returned.
C11_Witness ==
    \E i \in DOMAIN workers :
        /\ workers[i].pc = "done"
        /\ workers[i].success_count = 1
        /\ workers[i].fail_count = 1
        /\ workers[i].hist[Len(workers[i].hist) - 1] = "stopped"

(***************************************************************************)
(* C12.  When a click has made a directory checked, a second click on it   *)
(* leaves the directory and every loaded item below it unchecked, whatever *)
(* their tags were before the first click.                                 *)
(***************************************************************************)
C12_CheckThenUncheck ==
    [][\A item \in DOMAIN tree :
         (on_treeview_click(item) /\ IsDir(tree[item].path) /\ tree[item].tag # "checked")
             => LET again == ClickTree(tree', item)
                IN  /\ tree'[item].tag = "checked"
                    /\ click_bound'
                    /\ again[item].tag = "unchecked"
                    /\ \A d \in Descendants(tree, item) : again[d].tag = "unchecked"]_vars

\* A fully loaded directory with items two levels below it has been clicked
\* to checked and can be clicked again.
C12_Witness ==
    /\ click_bound
    /\ FullyLoaded
    /\ \E n \in DOMAIN tree :
          /\ tree[n].tag = "checked"
          /\ Cardinality(Descendants(tree, n)) = 4
          /\ \A d \in Descendants(tree, n) : tree[d].tag = "checked"

(***************************************************************************)
(* C13.  When a conversion run ends, by the stop button or by its terminal *)
(* event being applied, the start, stop and lock buttons are disabled and  *)
(* only the select button is enabled.                                      *)
(* The terminal event leaves the lock button as it is, and a folder        *)
(* selected from the File menu during the run (see C14) has enabled it.    *)
(***************************************************************************)
TerminalQueued == \E k \in 1 .. Len(gui_queue) : gui_queue[k].kind = "buttons"

C13_OnlySelectAfterRun ==
    [][((process_gui_queue /\ TerminalQueued) \/ stop_conversion)
          => buttons' = ResetButtons]_vars

(***************************************************************************)
(* C14.  While a selection is locked (the start button is enabled) or a    *)
(* run is converting (the stop button is enabled), no source folder can be *)
(* selected and no selection can be locked, by a button or by the menu.    *)
(* Select Source Folder of the File menu is never disabled.                *)
(***************************************************************************)
Locked == buttons.start

Converting == buttons.stop

C14_NoSelectWhileBusy ==
    [][(Locked \/ Converting) =>
          /\ \A d \in FsRoots : ~select_folder(d)
          /\ ~lock_selection]_vars

(***************************************************************************)
(* C15.  lock_selection changes the state only when a loaded file item is  *)
(* checked: with none checked the handler returns and nothing changes.     *)
(* When it acts, the start button is enabled, the lock and select buttons  *)
(* are disabled, the click binding is removed and the selected count is    *)
(* the number of files returned.  Every conversion thread is started with  *)
(* at least one file.                                                      *)
(***************************************************************************)
CheckedFile == \E n \in DOMAIN tree : tree[n].tag = "checked" /\ IsFile(tree[n].path)

C15_LockNeedsCheckedFile ==
    /\ []((ENABLED lock_selection) => CheckedFile)
    /\ [](\A i \in DOMAIN workers : Len(workers[i].items) >= 1)
    /\ [][lock_selection =>
            /\ CheckedFile
            /\ buttons' = [select |-> FALSE, lock |-> FALSE, start |-> TRUE,
                           stop |-> buttons.stop]
            /\ ~click_bound'
            /\ stats_labels'.selected = Len(get_checked_items(tree, top))
            /\ stats_labels'.selected >= 1]_vars

\* A selection of two files has been locked.
C15_Witness ==
    /\ buttons.start
    /\ ~click_bound
    /\ stats_labels.selected = 2
    /\ CheckedFile

(***************************************************************************)
(* C16.  A scan that fails with a permission or I/O error puts exactly one *)
(* diagnostic event on gui_queue and takes nothing back from tree_queue.   *)
(* After the except clause has logged, the 'no eligible' line follows      *)
(* because nothing was enqueued.                                           *)
(***************************************************************************)
C16_OneDiagnostic ==
    [][\A i \in DOMAIN scans : \A err \in ScanErrors :
         ScanFail(i, err) =>
             /\ Len(gui_queue') = Len(gui_queue) + 1
             /\ tree_queue' = tree_queue]_vars

(***************************************************************************)
(* C17.  The scan of an empty directory that can be read enqueues nothing  *)
(* on tree_queue, puts the one 'no eligible' event and returns; a scan     *)
(* that has enqueued an entry, or enqueues one now, puts no event.         *)
(***************************************************************************)
C17_EmptyDirectory ==
    [][\A i \in DOMAIN scans :
         ScanStep(i) =>
             /\ SortedEntries(scans[i].path) = <<>> =>
                    /\ tree_queue' = tree_queue
                    /\ gui_queue' = Append(gui_queue, LogEvent("no_eligible"))
                    /\ Len(Running(scans')) = Len(Running(scans)) - 1
             /\ (scans[i].enqueued \/ tree_queue' # tree_queue) =>
                    gui_queue' = gui_queue]_vars

\* The scan of the empty folder has returned and its line is in the log.
C17_Witness ==
    /\ \E i \in DOMAIN scans :
          /\ SortedEntries(scans[i].path) = <<>>
          /\ scans[i].pc = "ok"
          /\ ~scans[i].enqueued
    /\ log_area = <<"no_eligible">>
    /\ \A n \in DOMAIN tree : tree[n].kids = <<>>

(***************************************************************************)
(* C18.  A conversion thread puts the 'all files converted' message at     *)
(* most once and only when it returns: exactly once if the stop flag is    *)
(* not set then, never if it is.  The flag, cleared at the start of the    *)
(* run, is not cleared again while a conversion thread is running, so it   *)
(* is set at the end exactly if it was set during the run.                 *)
(***************************************************************************)
C18_SummaryMessage ==
    /\ [](\A i \in DOMAIN workers :
            /\ Count(workers[i].hist, {"message"}) <= 1
            /\ workers[i].pc # "done" => Count(workers[i].hist, {"message"}) = 0)
    /\ [][\A i \in DOMAIN workers :
            WorkerFinal(i) =>
                Count(workers'[i].hist, {"message"}) = (IF stop_event THEN 0 ELSE 1)]_vars
    /\ [][(stop_event /\ ~stop_event') => Active(workers) = <<>>]_vars
    /\ [][on_start_conversion => ~stop_event']_vars

\* A run that was not stopped has returned with the message, every one of
\* its conversions having failed.
C18_Witness ==
    \E i \in DOMAIN workers :
        /\ workers[i].pc = "done"
        /\ ~stop_event
        /\ workers[i].success_count = 0
        /\ Count(workers[i].hist, {"message"}) = 1

(***************************************************************************)
(* C19.  Every file of a run is converted into the formats of one set that *)
(* is fixed for the run: the set a thread has used for a file is the set   *)
(* it uses for every later file, whatever happens to the check boxes.      *)
(* The set is built from the check boxes again for every file.             *)
(***************************************************************************)
C19_OneFormatSet ==
    [][\A i \in DOMAIN workers :
         (WorkerLoop(i) /\ workers[i].formats # {})
             => workers'[i].formats = workers[i].formats]_vars

(***************************************************************************)
(* C20.  When a drain of tree_queue has inserted children under a          *)
(* directory item, the tag of that item agrees with the tri-state rule     *)
(* over its children.                                                      *)
(* The children are inserted unchecked and no tag is recomputed, so a      *)
(* directory that was checked before it was expanded stays checked above   *)
(* unchecked children.                                                     *)
(***************************************************************************)
C20_TriStateAfterDrain ==
    [][process_tree_queue =>
         \A n \in DOMAIN tree :
             (n \in DOMAIN tree' /\ Len(tree'[n].kids) > Len(tree[n].kids))
                 => TriState(tree', n)]_vars

\* ---------------------------------------------------------------------------
\* C21

\* The source root a file lies beneath: the folder that had to be selected
\* for the file to appear in the tree.
RECURSIVE RootOf(_)
RootOf(p) == IF FsParent(p) = NoPath THEN p ELSE RootOf(FsParent(p))

\* The worker has executed at least one conversion.
HasConverted(w) == w.success_count + w.fail_count > 0

\* C21: for every task of a conversion run the destination path is made
\* relative to the source root that was selected when the snapshot was
\* locked, also when the user restarts or selects another root while the
\* worker is executing tasks.
C21_RelativeToLockedRoot ==
    \A i \in DOMAIN workers :
        HasConverted(workers[i]) =>
            workers[i].start = RootOf(workers[i].items[1])

\* ---------------------------------------------------------------------------
\* C22

\* The check state of every node of t is the same in u.
SameTags(t, u) ==
    \A n \in DOMAIN t : n \in DOMAIN u /\ u[n].tag = t[n].tag

\* C22: the list of files a conversion run processes is the checked files
\* as they were when the selection was locked, and its length is the
\* selected-files count displayed at lock: while the selection is locked
\* and not yet started the tree cannot be clicked, the displayed count is
\* the number of checked files, and no step (expansion, queue drain or any
\* other) changes the check state of a node or the list of checked files;
\* the list handed to the thread is that list.
C22_LockedSelectionFrozen ==
    /\ [](Locked => /\ ~click_bound
                    /\ stats_labels.selected = Len(get_checked_items(tree, top)))
    /\ [][(Locked /\ Locked') =>
             /\ SameTags(tree, tree')
             /\ get_checked_items(tree', top') = get_checked_items(tree, top)]_vars
    /\ [][on_start_conversion =>
             /\ workers'[Len(workers')].items = get_checked_items(tree, top)
             /\ Len(workers'[Len(workers')].items) = stats_labels.selected]_vars

\* A run was started from a locked selection after a directory of the
\* tree was expanded and its entries were inserted while the selection was
\* locked: the thread holds one file, the tree shows the entries of the
\* second directory, all unchecked.
C22_Witness ==
    /\ workers # <<>>
    /\ workers[Len(workers)].items = <<2>>
    /\ workers[Len(workers)].pc = "loop"
    /\ ~click_bound
    /\ \E n \in DOMAIN tree :
          /\ tree[n].path = 3
          /\ tree[n].tag = "unchecked"
          /\ Len(tree[n].kids) = 2

\* ---------------------------------------------------------------------------
\* C23

\* The item of directory p in the tree has been expanded: its placeholder
\* is gone and a scan of p was started.
ExpandedDir(p) ==
    \E n \in DOMAIN tree : tree[n].path = p /\ IsDir(p) /\ ~tree[n].dummy

\* All entries of directory p are children of its item.
LoadedDir(p) ==
    \E n \in DOMAIN tree : tree[n].path = p /\ KidPaths(n) = SortedEntries(p)

\* C23: after a conversion run has been stopped and a new root has then
\* been selected, expanding a readable non-empty directory eventually
\* inserts all of its entries into the tree; the stop flag left over from
\* the earlier run does not cancel the scan.
C23_LoadsAfterStop ==
    \A p \in {q \in FsPaths : IsDir(q) /\ ScanDir(q) # <<>>} :
        (trees = MaxTreesRerun /\ ExpandedDir(p)) ~> LoadedDir(p)

\* ---------------------------------------------------------------------------
\* C24

\* No entry of the sequence of paths ps comes after an entry whose
\* lower-cased name is greater.
InNameOrder(ps) ==
    \A j, k \in 1 .. Len(ps) : j < k => ~LowerLess(FsName(ps[k]), FsName(ps[j]))

\* C24: in every reachable state the loaded children of each directory
\* item are in case-insensitive name order, whatever the interleaving of
\* the scanner threads of different directories and of the drains of
\* tree_queue.
C24_ChildrenInNameOrder ==
    \A n \in DOMAIN tree : InNameOrder(KidPaths(n))

\* Two scanner threads of different directories are running at once, each
\* with its second entry still to enqueue: of the first directory the tree
\* shows a, which the directory lists after B.py; of the second it shows
\* c.py, which the directory lists after d.pdf.
C24_Witness ==
    \E i, j \in DOMAIN scans :
        /\ scans[i].node # scans[j].node
        /\ scans[i].pc = "run" /\ scans[j].pc = "run"
        /\ scans[i].node \in DOMAIN tree /\ scans[j].node \in DOMAIN tree
        /\ KidPaths(scans[i].node) = <<3>>
        /\ KidPaths(scans[j].node) = <<5>>

\* ---------------------------------------------------------------------------
\* C25

\* The items a tick of process_tree_queue took off the queue, and those of
\* them whose parent item was in the tree.
Consumed == SubSeq(tree_queue, 1, Len(tree_queue) - Len(tree_queue'))

ConsumedLive == SelectSeq(Consumed, LAMBDA it : it.parent \in DOMAIN tree)

\* A scanner step leaves the tree alone and enqueues at most one entry, an
\* entry of the directory of its scan with the item of its scan as parent.
ScanOnlyEnqueues(i) ==
    /\ UNCHANGED <<tree, top, nextId>>
    /\ \/ tree_queue' = tree_queue
       \/ \E k \in 1 .. Len(SortedEntries(scans[i].path)) :
             tree_queue' = Append(tree_queue,
                                  QueueItem(EntryKind(SortedEntries(scans[i].path)[k]),
                                            SortedEntries(scans[i].path)[k], scans[i].node))

\* A tick takes items off the front of the queue; the items of the tree
\* keep their path, tag and parent; the new items are, one for one and in
\* order, the consumed entries whose parent is in the tree, each the last
\* child of that parent; an entry whose parent is not in the tree is not
\* inserted.
DrainInsertsOnce ==
    /\ tree_queue' = SubSeq(tree_queue, Len(Consumed) + 1, Len(tree_queue))
    /\ \A n \in DOMAIN tree :
          /\ n \in DOMAIN tree'
          /\ tree'[n].path = tree[n].path
          /\ tree'[n].parent = tree[n].parent
          /\ tree'[n].tag = tree[n].tag
          /\ SubSeq(tree'[n].kids, 1, Len(tree[n].kids)) = tree[n].kids
    /\ DOMAIN tree' \ DOMAIN tree = {nextId + k - 1 : k \in 1 .. Len(ConsumedLive)}
    /\ \A k \in 1 .. Len(ConsumedLive) :
          LET n == nextId + k - 1
              it == ConsumedLive[k]
          IN  /\ tree'[n].path = it.path
              /\ tree'[n].parent = it.parent
              /\ Len(SelectSeq(tree'[it.parent].kids, LAMBDA c : c = n)) = 1
    /\ \A n \in DOMAIN tree' :
          Len(tree'[n].kids) =
             (IF n \in DOMAIN tree THEN Len(tree[n].kids) ELSE 0)
             + Len(SelectSeq(ConsumedLive, LAMBDA it : it.parent = n))

\* C25: scanner threads only enqueue entries and never change the tree;
\* every entry a scan enqueues is inserted at most once, by the drain of
\* process_tree_queue, and only as a child of the item whose expansion
\* started that scan; entries enqueued by scans of a discarded tree are
\* never inserted into the new tree: a scan whose item is in the tree on
\* display is a scan of that item's directory, each child of an item is an
\* entry of the item's directory, and no entry is a child twice.
C25_ScansOnlyEnqueue ==
    /\ [][\A i \in DOMAIN scans : ScanStep(i) => ScanOnlyEnqueues(i)]_vars
    /\ [][process_tree_queue => DrainInsertsOnce]_vars
    /\ [][(\A i \in DOMAIN scans : ~ScanStep(i)) /\ ~process_tree_queue =>
             \A n \in DOMAIN tree :
                 n \in DOMAIN tree' => tree'[n].kids = tree[n].kids]_vars
    /\ [](\A i \in DOMAIN scans :
             scans[i].node \in DOMAIN tree => tree[scans[i].node].path = scans[i].path)
    /\ [](\A n \in DOMAIN tree :
             /\ \A k \in 1 .. Len(tree[n].kids) :
                   FsParent(tree[tree[n].kids[k]].path) = tree[n].path
             /\ \A j, k \in 1 .. Len(tree[n].kids) :
                   j # k => tree[tree[n].kids[j]].path # tree[tree[n].kids[k]].path)

\* The second source folder is on display with an entry inserted under its
\* root item, after a tick has refused an entry that a scan of the first
\* tree had enqueued.
C25_Witness ==
    /\ trees = MaxTreesRerun
    /\ \E k \in DOMAIN gui_queue : gui_queue[k] = LogEvent("tree_queue_error")
    /\ top # <<>>
    /\ tree[top[1]].kids # <<>>

====
